---- MODULE Spec2Model ----
(***************************************************************************)
(* Model of the recording core of the voice-interaction robot:            *)
(*   src/modules/stt.py              WhisperSTT on PyAudio  (blocking     *)
(*                                   reads in record_audio, callback      *)
(*                                   stream in manual mode)               *)
(*   src/modules/stt_sounddevice.py  WhisperSTT on sounddevice (callback  *)
(*                                   stream in both modes)                *)
(* One WhisperSTT instance is modelled.  Its caller is one thread of      *)
(* control (pc); the audio device delivers frames from its own thread.    *)
(*   src/main.py                     the conversation loop (SpecMain)     *)
(*   src/modules/llm.py              LLMProcessor.generate_response       *)
(*   src/server/state_broadcaster.py StateBroadcaster (SpecBroadcaster)   *)
(*   src/server/api.py               the WebSocket server (SpecServer):   *)
(*                                   coroutines on one event loop, which  *)
(*                                   interleave at their await points     *)
(***************************************************************************)
EXTENDS Integers, Sequences, FiniteSets, TLC

VARIABLES
    backend,           \* which of the two WhisperSTT classes the instance is
    pc,                \* where the calling thread is
    is_recording,      \* self.is_recording
    recording_frames,  \* self.recording_frames
    recording_stream,  \* self.recording_stream
    leaked,            \* open manual streams no variable refers to any more
    delivered,         \* frames the device delivered to the manual session
    frames,            \* record_audio: frames
    silent_chunks,     \* record_audio: silent_chunks / silence_chunks
    started_speaking,  \* record_audio: started_speaking
    chunk_index,       \* record_audio: loop iterations completed
    auto_stream,       \* record_audio: the stream it opened
    stop_reason,       \* record_audio: why the loop was left
    evaluated,         \* record_audio: number of the frame the detector saw
    device_error,      \* "none", or during which recording the device failed
    ret,               \* outcome of the last call, as its caller sees it
    package,           \* the WAV the last call built: << >> or << wav >>
    transcribed,       \* what the last call handed to transcribe()
    printed,           \* the last warning the instance printed
    stage,             \* main(): where the conversation loop is
    interaction,       \* main(): the calls of the current loop iteration
    conversation_history,  \* LLMProcessor.conversation_history
    exchanges,         \* every exchange generate_response has recorded
    llm_calls,         \* number of generate_response calls so far
    enabled,           \* StateBroadcaster.enabled
    http_requests,     \* number of requests.post calls the broadcaster made
    last_notify,       \* the broadcaster's last call and how it ended
    active_connections,  \* api.py: active_connections
    current_state,     \* api.py: current_state["state"]
    link,              \* per client: its side of the WebSocket
    endpoint,          \* per client: where its websocket_endpoint is
    bcast              \* per update_state request: where its broadcast is

recorder_vars ==
    << backend, pc, is_recording, recording_frames, recording_stream,
       leaked, delivered, frames, silent_chunks, started_speaking,
       chunk_index, auto_stream, stop_reason, evaluated, device_error, ret,
       package, transcribed, printed >>

llm_vars == << conversation_history, exchanges, llm_calls >>

main_vars == << stage, interaction, llm_vars >>

broadcaster_vars == << enabled, http_requests, last_notify >>

server_vars == << active_connections, current_state, link, endpoint, bcast >>

\* what the server never touches
beside_server == << recorder_vars, main_vars, broadcaster_vars >>

\* what the conversation loop never touches
beside_main == << broadcaster_vars, server_vars >>

\* what the recorder's operations never touch
beside_recorder == << main_vars, beside_main >>

vars == << recorder_vars, main_vars, broadcaster_vars, server_vars >>

manual_vars == << is_recording, recording_frames, recording_stream, leaked >>

auto_vars == << frames, silent_chunks, started_speaking, chunk_index,
                auto_stream, stop_reason, evaluated >>

----------------------------------------------------------------------------
(* Configuration.  The shipped values (16000 Hz, 1024 samples, 2.0 s,     *)
(* 30 s) give 31 and 468 chunks; the model keeps the formulas and scales  *)
(* the values down.                                                        *)

sample_rate == 4

chunk_size == 2

silence_duration == 1

max_duration == 2

channels == 1

silence_threshold == 500

sample_width == 2

\* int(self.silence_duration * (self.sample_rate / self.chunk_size)); the
\* product is exact in floating point whenever chunk_size is a power of two.
silence_chunks_threshold == (silence_duration * sample_rate) \div chunk_size

max_chunks == (max_duration * sample_rate) \div chunk_size

----------------------------------------------------------------------------
(* Frames: chunk_size signed 16-bit samples.                               *)

Int16Min == -32768

ToInt16(x) == ((x + 32768) % 65536) - 32768

\* np.abs on an int16 array stays in int16: abs(-32768) is -32768.
Abs16(s) == ToInt16(IF s < 0 THEN 0 - s ELSE s)

RECURSIVE SumAbs16(_)
SumAbs16(frame) ==
    IF frame = << >> THEN 0
    ELSE Abs16(Head(frame)) + SumAbs16(Tail(frame))

\* Variant: a frame whose mean equals the threshold counts as speech.
IsLoudAtThreshold(frame) ==
    SumAbs16(frame) >= silence_threshold * Len(frame)

\* np.abs(frame).mean() > self.silence_threshold (the mean is a float64)
IsLoud(frame) == SumAbs16(frame) > silence_threshold * Len(frame)

\* n samples, each of value v
RECURSIVE Samples(_, _)
Samples(v, n) == IF n = 0 THEN << >> ELSE Append(Samples(v, n - 1), v)

\* Each sample at the threshold: the mean equals the threshold.
QuietFrame == Samples(silence_threshold, chunk_size)

\* Negative samples whose mean magnitude is a fraction above the threshold.
LoudFrame ==
    << 0 - (silence_threshold + 1) >>
        \o Samples(0 - silence_threshold, chunk_size - 1)

\* Negative full scale on every sample (hard clipping).
ClippedFrame == Samples(Int16Min, chunk_size)

Frames == {QuietFrame, LoudFrame, ClippedFrame}

\* Manual recording never looks inside a frame: two kinds tell frames apart.
ManualFrames == {QuietFrame, LoudFrame}

----------------------------------------------------------------------------
(* Packaging: b''.join(frames) / np.concatenate(frames).tobytes(), then   *)
(* the wave module's header.                                               *)

RECURSIVE Join(_)
Join(fs) == IF fs = << >> THEN << >> ELSE Head(fs) \o Join(Tail(fs))

\* Variant: the high byte first.
Int16ToBytesBigEndian(s) == << (s % 65536) \div 256, (s % 65536) % 256 >>

\* little-endian two's complement
Int16ToBytes(s) == << (s % 65536) % 256, (s % 65536) \div 256 >>

RECURSIVE ToBytes(_)
ToBytes(samples) ==
    IF samples = << >> THEN << >>
    ELSE Int16ToBytes(Head(samples)) \o ToBytes(Tail(samples))

FramesToWav(audio_data) ==
    [ nchannels |-> channels,
      sampwidth |-> sample_width,
      framerate |-> sample_rate,
      nframes   |-> Len(ToBytes(audio_data)) \div (sample_width * channels),
      data      |-> ToBytes(audio_data) ]

\* package holds no WAV, or exactly one
NoPackage == << >>

NoRet == [op |-> "none", raised |-> FALSE, value |-> "None"]

\* transcribe(): the stripped text (possibly empty), or None on any error
TranscribeOutcomes == {"text", "empty_text", "None"}

----------------------------------------------------------------------------
\* LLMProcessor.__init__ and the state of main() when its loop is entered
MainInit ==
    /\ stage = "prompt"
    /\ interaction = << >>
    /\ conversation_history = << >>
    /\ exchanges = << >>
    /\ llm_calls = 0

\* StateBroadcaster.__init__
BroadcasterInit ==
    /\ enabled = TRUE
    /\ http_requests = 0
    /\ last_notify = [method |-> "none", state |-> "none", event |-> "none",
                      raised |-> FALSE]

\* WebSocket connections the model lets arrive in one run
NumClients == 2

\* POST /state requests the model lets arrive in one run
NumUpdates == 2

Clients == 1..NumClients

Updates == 1..NumUpdates

\* An update_state request that has not arrived.
NoBroadcast ==
    [at |-> "none", connection |-> 0, used |-> 0, visited |-> {},
     disconnected |-> {}, connected |-> {}, sent |-> {}, error |-> "none"]

\* api.py as imported: no connection, state idle
ServerInit ==
    /\ active_connections = {}
    /\ current_state = "idle"
    /\ link = [c \in Clients |-> "none"]
    /\ endpoint = [c \in Clients |-> "none"]
    /\ bcast = [u \in Updates |-> NoBroadcast]

Init ==
    /\ backend \in {"pyaudio", "sounddevice"}
    /\ pc = "idle"
    /\ is_recording = FALSE
    /\ recording_frames = << >>
       \* stt.py sets recording_stream = None; stt_sounddevice.py's __init__
       \* does not create the attribute
    /\ recording_stream = IF backend = "pyaudio" THEN "none" ELSE "unset"
    /\ leaked = 0
    /\ delivered = << >>
    /\ frames = << >>
    /\ silent_chunks = 0
    /\ started_speaking = FALSE
    /\ chunk_index = 0
    /\ auto_stream = "none"
    /\ stop_reason = "none"
    /\ evaluated = 0
    /\ device_error = "none"
    /\ ret = NoRet
    /\ package = NoPackage
    /\ transcribed = "nothing"
    /\ printed = "none"
    /\ MainInit
    /\ BroadcasterInit
    /\ ServerInit

\* A call made once the manual session is over: the frames that session was
\* given are of no interest any more.
ForgetDelivered == delivered' = IF is_recording THEN delivered ELSE << >>

\* The device thread may deliver one more frame: the model stops it once the
\* buffers hold more than a full max_duration of frames.
CanDeliver == Len(frames) + Len(recording_frames) <= max_chunks

----------------------------------------------------------------------------
(* Automatic recording, reached through listen_and_transcribe().           *)

\* The per-frame update of record_audio's loop body.
Detector(f, started, silent) ==
    LET started1 == IsLoud(f) \/ started
        silent1  == IF IsLoud(f) THEN 0
                    ELSE IF started THEN silent + 1 ELSE silent
    IN  [ started |-> started1,
          silent  |-> silent1,
          stop    |-> started1 /\ silent1 > silence_chunks_threshold ]

\* stt.py: finally: stream.stop_stream(); stream.close()
\* stt_sounddevice.py: leaving the `with sd.InputStream(...)` block
ReleaseAutoStream(h) == "closed"

\* Leaving record_audio normally: the stream is released, the frames are
\* packaged, and listen_and_transcribe hands the package to transcribe().
AutoReturn(fr, reason) ==
    /\ auto_stream' = ReleaseAutoStream(auto_stream)
    /\ stop_reason' = reason
    /\ package' = << FramesToWav(Join(fr)) >>
    /\ transcribed' = IF fr = << >> THEN "empty_audio" ELSE "audio"
    /\ \E t \in TranscribeOutcomes :
           ret' = [op |-> "listen", raised |-> FALSE, value |-> t]
    /\ pc' = "idle"

\* One pass of the loop has run with detector verdict d; n passes are done.
AutoAdvance(fr, d, n, limit) ==
    /\ frames' = fr
    /\ started_speaking' = d.started
    /\ silent_chunks' = d.silent
    /\ chunk_index' = n
    /\ IF d.stop
       THEN /\ AutoReturn(fr, "silence")
            /\ printed' = "silence_detected"
       ELSE IF n = limit
       THEN /\ AutoReturn(fr, "cap")
            /\ printed' = IF fr = << >> /\ backend = "sounddevice"
                          THEN "no_audio_recorded" ELSE printed
       ELSE /\ UNCHANGED << auto_stream, stop_reason, package, transcribed,
                            ret, pc, printed >>

\* Entering record_audio: fresh locals, then the stream is opened.
AutoEnter(loop_pc) ==
    /\ pc = "idle"
    /\ frames' = << >>
    /\ silent_chunks' = 0
    /\ started_speaking' = FALSE
    /\ chunk_index' = 0
    /\ evaluated' = 0
    /\ \E opened \in BOOLEAN :
         IF ~opened
         THEN /\ auto_stream' = "none"
              /\ stop_reason' = "none"
              /\ package' = NoPackage
              /\ transcribed' = "nothing"
              /\ ret' = [op |-> "listen", raised |-> TRUE, value |-> "None"]
              /\ pc' = "idle"
              /\ UNCHANGED << device_error, printed >>
         ELSE /\ device_error' = "none"
              /\ IF max_chunks = 0
                 THEN /\ AutoReturn(<< >>, "cap")
                      /\ printed' = IF backend = "sounddevice"
                                    THEN "no_audio_recorded" ELSE "none"
                 ELSE /\ auto_stream' = "open"
                      /\ stop_reason' = "none"
                      /\ package' = NoPackage
                      /\ transcribed' = "nothing"
                      /\ ret' = NoRet
                      /\ pc' = loop_pc
                      /\ printed' = "none"
    /\ ForgetDelivered
    /\ UNCHANGED << backend, manual_vars >>

RecordAudioOpenA ==
    /\ backend = "pyaudio"
    /\ AutoEnter("autoA")

\* for i in range(max_chunks): data = stream.read(...); frames.append(data); ...
RecordAudioReadA ==
    /\ pc = "autoA"
    /\ \E f \in Frames :
         AutoAdvance(Append(frames, f),
                     Detector(f, started_speaking, silent_chunks),
                     chunk_index + 1, max_chunks)
    /\ evaluated' = Len(frames) + 1
    /\ UNCHANGED << backend, delivered, manual_vars, device_error >>

\* stream.read raises: the finally clause stops and closes the stream and the
\* exception leaves record_audio and listen_and_transcribe.
RecordAudioReadErrorA ==
    /\ pc = "autoA"
    /\ auto_stream' = ReleaseAutoStream(auto_stream)
    /\ stop_reason' = "error"
    /\ device_error' = "auto"
    /\ ret' = [op |-> "listen", raised |-> TRUE, value |-> "None"]
    /\ pc' = "idle"
    /\ UNCHANGED << backend, delivered, manual_vars, frames, silent_chunks,
                    started_speaking, chunk_index, evaluated, package,
                    transcribed, printed >>

RecordAudioOpenB ==
    /\ backend = "sounddevice"
    /\ AutoEnter("autoB")

\* audio_callback of record_audio, run by the device thread
AudioCallbackB ==
    /\ pc = "autoB"
    /\ auto_stream = "open"
    /\ device_error = "none"
    /\ CanDeliver
    /\ \E f \in Frames : frames' = Append(frames, f)
    /\ UNCHANGED << backend, delivered, pc, manual_vars, silent_chunks,
                    started_speaking, chunk_index, auto_stream, stop_reason,
                    evaluated, device_error, ret, package, transcribed,
                    printed >>

\* One pass of the loop: sd.sleep(...), then the latest chunk is looked at.
RecordAudioTickB ==
    /\ pc = "autoB"
    /\ IF Len(frames) > 0
       THEN /\ AutoAdvance(frames,
                           Detector(frames[Len(frames)], started_speaking,
                                    silent_chunks),
                           chunk_index + 1, max_chunks)
            /\ evaluated' = Len(frames)
       ELSE /\ AutoAdvance(frames,
                           [started |-> started_speaking,
                            silent |-> silent_chunks, stop |-> FALSE],
                           chunk_index + 1, max_chunks)
            /\ evaluated' = evaluated
    /\ UNCHANGED << backend, delivered, manual_vars, device_error >>

\* The device stops working while a callback stream is open on it.  The
\* callback only prints the status it is given; nothing is raised.
DeviceFails ==
    /\ device_error = "none"
    /\ \/ (backend = "sounddevice" /\ auto_stream = "open")
       \/ recording_stream = "open"
    /\ device_error' = IF pc = "autoB" THEN "auto" ELSE "manual"
    /\ UNCHANGED << backend, delivered, pc, manual_vars, auto_vars, ret,
                    package, transcribed, printed >>

----------------------------------------------------------------------------
(* Manual recording.                                                       *)

\* record_audio is not running: its locals do not exist
AutoLocalsGone ==
    /\ frames' = << >>
    /\ silent_chunks' = 0
    /\ started_speaking' = FALSE
    /\ chunk_index' = 0
    /\ auto_stream' = "none"
    /\ stop_reason' = "none"
    /\ evaluated' = 0

\* `if self.recording_stream:` on a stream object (open or closed) is true.
IsStreamObject(h) == h \in {"open", "closed"}

\* Variant: start_recording goes on with the buffer it finds.
KeptBuffer(old) == old

\* self.recording_frames = []
FreshBuffer(old) == << >>

\* start_recording(); `after` is where the caller goes on when it returns.
StartRecordingBody(opname, after) ==
    IF is_recording
    THEN /\ printed' = "already_recording"
         /\ ret' = [op |-> opname, raised |-> FALSE, value |-> "None"]
         /\ pc' = after
         /\ UNCHANGED << manual_vars, delivered, device_error >>
    ELSE /\ is_recording' = TRUE
         /\ recording_frames' = FreshBuffer(recording_frames)
         /\ delivered' = << >>
         /\ \E opened \in BOOLEAN :
              IF opened
              THEN /\ recording_stream' = "open"
                   /\ leaked' = IF recording_stream = "open"
                                THEN leaked + 1 ELSE leaked
                   /\ device_error' = "none"
                   /\ ret' = [op |-> opname, raised |-> FALSE,
                              value |-> "None"]
                   /\ pc' = after
              ELSE /\ ret' = [op |-> opname, raised |-> TRUE,
                              value |-> "None"]
                   /\ pc' = "idle"
                   /\ UNCHANGED << recording_stream, leaked, device_error >>
         /\ printed' = "none"

\* stop_recording(); `listen` says the caller is manual_listen_and_transcribe,
\* which hands a returned package to transcribe().
StopRecordingBody(opname, listen) ==
    IF ~is_recording
    THEN /\ printed' = "no_active_recording"
         /\ ret' = [op |-> opname, raised |-> FALSE, value |-> "None"]
         /\ package' = NoPackage
         /\ transcribed' = "nothing"
         /\ UNCHANGED manual_vars
    ELSE /\ is_recording' = FALSE
         /\ leaked' = leaked
         /\ \E closing_raises \in BOOLEAN :
              \* the attribute does not exist (AttributeError), or stop() is
              \* called on a stream that is closed already (may raise)
              IF \/ recording_stream = "unset"
                 \/ (recording_stream = "closed" /\ closing_raises)
              THEN /\ ret' = [op |-> opname, raised |-> TRUE, value |-> "None"]
                   /\ package' = NoPackage
                   /\ transcribed' = "nothing"
                   /\ printed' = "none"
                   /\ UNCHANGED << recording_stream, recording_frames >>
              ELSE /\ recording_stream' = "none"
                   /\ IF recording_frames = << >>
                      THEN /\ printed' = "no_audio_data"
                           /\ ret' = [op |-> opname, raised |-> FALSE,
                                      value |-> "None"]
                           /\ package' = NoPackage
                           /\ transcribed' = "nothing"
                           /\ UNCHANGED recording_frames
                      ELSE /\ printed' = "none"
                           /\ package' =
                                 << FramesToWav(Join(recording_frames)) >>
                           /\ recording_frames' = << >>
                           /\ IF listen
                              THEN /\ transcribed' = "audio"
                                   /\ \E t \in TranscribeOutcomes :
                                        ret' = [op |-> opname,
                                                raised |-> FALSE, value |-> t]
                              ELSE /\ transcribed' = "nothing"
                                   /\ ret' = [op |-> opname, raised |-> FALSE,
                                              value |-> "wav"]

StartRecording ==
    /\ pc = "idle"
    /\ StartRecordingBody("start_recording", "idle")
    /\ package' = NoPackage
    /\ transcribed' = "nothing"
    /\ AutoLocalsGone
    /\ UNCHANGED backend

StopRecording ==
    /\ pc = "idle"
    /\ StopRecordingBody("stop_recording", FALSE)
    /\ AutoLocalsGone
    /\ ForgetDelivered
    /\ UNCHANGED << backend, pc, device_error >>

\* cleanup(): if self.is_recording: self.stop_recording()
Cleanup ==
    /\ pc = "idle"
    /\ IF is_recording
       THEN StopRecordingBody("cleanup", FALSE)
       ELSE /\ ret' = [op |-> "cleanup", raised |-> FALSE, value |-> "None"]
            /\ package' = NoPackage
            /\ transcribed' = "nothing"
            /\ UNCHANGED << manual_vars, printed >>
    /\ AutoLocalsGone
    /\ ForgetDelivered
    /\ UNCHANGED << backend, pc, device_error >>

\* manual_listen_and_transcribe(), up to input()
ManualListenStart ==
    /\ pc = "idle"
    /\ StartRecordingBody("manual_listen", "waitkey")
    /\ package' = NoPackage
    /\ transcribed' = "nothing"
    /\ AutoLocalsGone
    /\ UNCHANGED backend

\* ENTER: audio_data = self.stop_recording(); transcribe if there is any
ManualListenEnter ==
    /\ pc = "waitkey"
    /\ StopRecordingBody("manual_listen", TRUE)
    /\ pc' = "idle"
    /\ ForgetDelivered
    /\ UNCHANGED << backend, auto_vars, device_error >>

\* Variant: the except clause returns without touching the stream.
CancelReleaseSkipped(h) == h

\* the except clause: if self.recording_stream: stop and close it
CancelRelease(h) == IF IsStreamObject(h) THEN "closed" ELSE h

\* KeyboardInterrupt while input() waits
ManualListenCancel ==
    /\ pc = "waitkey"
    /\ is_recording' = FALSE
    /\ \E closing_raises \in BOOLEAN :
         IF \/ recording_stream = "unset"
            \/ (recording_stream = "closed" /\ closing_raises)
         THEN /\ ret' = [op |-> "manual_listen", raised |-> TRUE,
                         value |-> "None"]
              /\ UNCHANGED recording_stream
         ELSE /\ recording_stream' = CancelRelease(recording_stream)
              /\ ret' = [op |-> "manual_listen", raised |-> FALSE,
                         value |-> "None"]
    /\ printed' = "recording_cancelled"
    /\ package' = NoPackage
    /\ transcribed' = "nothing"
    /\ pc' = "idle"
    /\ UNCHANGED << backend, delivered, recording_frames, leaked, auto_vars,
                    device_error >>

\* _recording_callback / start_recording's audio_callback, on the device thread
RecordingCallback ==
    /\ recording_stream = "open"
    /\ device_error = "none"
    /\ CanDeliver
    /\ \E f \in ManualFrames :
         /\ recording_frames' = IF is_recording
                                THEN Append(recording_frames, f)
                                ELSE recording_frames
         /\ delivered' = Append(delivered, f)
    /\ UNCHANGED << backend, pc, is_recording, recording_stream, leaked,
                    auto_vars, device_error, ret, package, transcribed,
                    printed >>

----------------------------------------------------------------------------
(* LLMProcessor (src/modules/llm.py).                                      *)

\* self.max_history = 10; the model keeps the formulas and scales it down
max_history == 2

\* generate_response calls the model allows in one run
MaxCalls == 4

\* What requests.post, raise_for_status, json() and the extraction of the
\* message give: a reply with text, a reply whose content is empty, a timeout,
\* an HTTP error status, or a body that cannot be taken apart.
RequestOutcomes == {"ok", "ok_empty", "timeout", "http_error", "malformed"}

RequestFailures == {"timeout", "http_error", "malformed"}

\* assistant_message = result["choices"][0]["message"]["content"]
AssistantMessage(outcome) == IF outcome = "ok" THEN "reply" ELSE "empty_reply"

\* The two entries generate_response appends for call number n.
Exchange(n, outcome) ==
    << [role |-> "user", content |-> << "input", n >>],
       [role |-> "assistant", content |-> << AssistantMessage(outcome), n >>] >>

\* Variant: the history is never cut.
TrimHistoryOff(h) == h

\* if len(h) > self.max_history * 2: h = h[-(self.max_history * 2):]
TrimHistory(h) ==
    IF Len(h) > max_history * 2
    THEN SubSeq(h, Len(h) - max_history * 2 + 1, Len(h))
    ELSE h

\* What generate_response returns: the message, or the apology of the except
\* clause that caught the failure.
GenerateReturn(outcome) ==
    IF outcome \in RequestFailures THEN "apology"
    ELSE AssistantMessage(outcome)

\* generate_response(user_input), the request ending as `outcome`
GenerateResponse(outcome) ==
    /\ llm_calls' = llm_calls + 1
    /\ IF outcome \in RequestFailures
       THEN UNCHANGED << conversation_history, exchanges >>
       ELSE /\ conversation_history' =
                  TrimHistory(conversation_history
                                  \o Exchange(llm_calls + 1, outcome))
            /\ exchanges' = exchanges \o Exchange(llm_calls + 1, outcome)
    /\ ret' = [op |-> "generate_response", raised |-> FALSE,
               value |-> GenerateReturn(outcome)]

----------------------------------------------------------------------------
(* The conversation loop of main() (src/main.py), which uses the          *)
(* sounddevice WhisperSTT in manual mode.                                  *)

\* Variant: only None counts as no result.
TruthyNotNone(v) == v # "None"

\* `if not student_input` / `if not robot_response`: None and "" are falsy
Truthy(v) == v \notin {"None", "empty_text", "empty_reply"}

\* An exception that is no KeyboardInterrupt leaves the loop through finally.
AfterCall(raised, value, onward) ==
    IF raised THEN "finally" ELSE IF Truthy(value) THEN onward ELSE "prompt"

\* ENTER at the prompt: stt.manual_listen_and_transcribe() is entered
MainPromptEnter ==
    /\ UNCHANGED beside_main
    /\ stage = "prompt"
    /\ ManualListenStart
    /\ stage' = IF ret'.raised THEN "finally" ELSE "listening"
    /\ interaction' = << >>
    /\ UNCHANGED llm_vars

\* Ctrl+C at the prompt
MainPromptInterrupt ==
    /\ UNCHANGED beside_main
    /\ stage = "prompt"
    /\ stage' = "finally"
    /\ UNCHANGED << recorder_vars, interaction, llm_vars >>

\* ENTER while recording: the recording is stopped and transcribed
MainListenEnter ==
    /\ UNCHANGED beside_main
    /\ stage = "listening"
    /\ ManualListenEnter
    /\ stage' = AfterCall(ret'.raised, ret'.value, "generate")
    /\ interaction' =
          IF transcribed' = "nothing" THEN interaction
          ELSE Append(interaction, [call |-> "transcribe",
                                    outcome |-> transcribed',
                                    result |-> ret'.value])
    /\ UNCHANGED llm_vars

\* Ctrl+C while recording: manual_listen_and_transcribe returns None
MainListenCancel ==
    /\ UNCHANGED beside_main
    /\ stage = "listening"
    /\ ManualListenCancel
    /\ stage' = AfterCall(ret'.raised, ret'.value, "generate")
    /\ UNCHANGED << interaction, llm_vars >>

MainRecordingCallback ==
    /\ UNCHANGED beside_main
    /\ RecordingCallback
    /\ UNCHANGED main_vars

MainDeviceFails ==
    /\ UNCHANGED beside_main
    /\ DeviceFails
    /\ UNCHANGED main_vars

\* robot_response = llm.generate_response(student_input)
MainGenerate ==
    /\ UNCHANGED beside_main
    /\ stage = "generate"
    /\ llm_calls < MaxCalls
    /\ \E outcome \in RequestOutcomes :
         /\ GenerateResponse(outcome)
         /\ interaction' = Append(interaction, [call |-> "generate",
                                                outcome |-> outcome,
                                                result |-> ret'.value])
    /\ stage' = AfterCall(FALSE, ret'.value, "speak")
    /\ package' = NoPackage
    /\ transcribed' = "nothing"
    /\ ForgetDelivered
    /\ UNCHANGED << backend, pc, manual_vars, auto_vars, device_error,
                    printed >>

\* tts.speak(robot_response): it returns True or False and raises nothing
MainSpeak ==
    /\ UNCHANGED beside_main
    /\ stage = "speak"
    /\ \E done \in {"True", "False"} :
         /\ ret' = [op |-> "speak", raised |-> FALSE, value |-> done]
         /\ interaction' = Append(interaction, [call |-> "speak",
                                                outcome |-> ret.value,
                                                result |-> done])
    /\ stage' = "prompt"
    /\ package' = NoPackage
    /\ transcribed' = "nothing"
    /\ ForgetDelivered
    /\ UNCHANGED << backend, pc, manual_vars, auto_vars, device_error,
                    printed, llm_vars >>

\* finally: stt.cleanup()
MainFinally ==
    /\ UNCHANGED beside_main
    /\ stage = "finally"
    /\ Cleanup
    /\ stage' = "exited"
    /\ UNCHANGED << interaction, llm_vars >>

InitMain == Init /\ backend = "sounddevice"

NextMain ==
    \/ MainPromptEnter
    \/ MainPromptInterrupt
    \/ MainListenEnter
    \/ MainListenCancel
    \/ MainRecordingCallback
    \/ MainDeviceFails
    \/ MainGenerate
    \/ MainSpeak
    \/ MainFinally

SpecMain == InitMain /\ [][NextMain]_vars

----------------------------------------------------------------------------
(* StateBroadcaster (src/server/state_broadcaster.py).                     *)

\* requests.post calls the model allows in one run
MaxRequests == 3

Phases == {"idle", "listening", "thinking", "speaking"}

\* How a POST to the server can end: a status code, a refused connection, no
\* answer to the connection attempt or to the request within timeout=1, or
\* some other failure inside requests.
PostEvents ==
    {"status_200", "status_500", "refused", "connect_timeout",
     "read_timeout", "other_error"}

\* The exception requests raises for an event ("none" for a response).
ExceptionOf(event) ==
    CASE event = "refused"         -> "ConnectionError"
      [] event = "connect_timeout" -> "ConnectTimeout"
      [] event = "read_timeout"    -> "ReadTimeout"
      [] event = "other_error"     -> "RequestException"
      [] OTHER                     -> "none"

\* Variant: only the class itself is caught, not its subclasses.
IsExactlyConnectionError(exc) == exc = "ConnectionError"

\* except requests.exceptions.ConnectionError: ConnectTimeout derives from
\* both ConnectionError and Timeout
IsConnectionError(exc) == exc \in {"ConnectionError", "ConnectTimeout"}

\* except Exception: every class requests raises derives from Exception
IsException(exc) ==
    exc \in {"ConnectionError", "ConnectTimeout", "ReadTimeout",
             "RequestException"}

\* send_state(state, text), reached as `method`
SendStateBody(method, state) ==
    IF ~enabled
    THEN /\ last_notify' = [method |-> method, state |-> state,
                            event |-> "not_sent", raised |-> FALSE]
         /\ UNCHANGED << enabled, http_requests >>
    ELSE /\ http_requests < MaxRequests
         /\ http_requests' = http_requests + 1
         /\ \E event \in PostEvents :
              /\ enabled' = ~IsConnectionError(ExceptionOf(event))
              /\ last_notify' =
                    [method |-> method, state |-> state, event |-> event,
                     raised |-> /\ ExceptionOf(event) # "none"
                                /\ ~IsConnectionError(ExceptionOf(event))
                                /\ ~IsException(ExceptionOf(event))]

SendState ==
    /\ \E state \in Phases : SendStateBody("send_state", state)
    /\ UNCHANGED << recorder_vars, main_vars, server_vars >>

BroadcastIdle ==
    /\ SendStateBody("idle", "idle")
    /\ UNCHANGED << recorder_vars, main_vars, server_vars >>

BroadcastListening ==
    /\ SendStateBody("listening", "listening")
    /\ UNCHANGED << recorder_vars, main_vars, server_vars >>

BroadcastThinking ==
    /\ SendStateBody("thinking", "thinking")
    /\ UNCHANGED << recorder_vars, main_vars, server_vars >>

BroadcastSpeaking ==
    /\ SendStateBody("speaking", "speaking")
    /\ UNCHANGED << recorder_vars, main_vars, server_vars >>

NextBroadcaster ==
    \/ SendState
    \/ BroadcastIdle
    \/ BroadcastListening
    \/ BroadcastThinking
    \/ BroadcastSpeaking

SpecBroadcaster == Init /\ [][NextBroadcaster]_vars

----------------------------------------------------------------------------
(* The WebSocket server (src/server/api.py).  Each action runs one         *)
(* coroutine from one await to its next.                                   *)

\* A send on the connection of client c succeeds while the client is there.
SendSucceeds(c) == link[c] = "up"

\* active_connections.remove(c): KeyError when c is not in the set
Removed(set, c) == [ok |-> c \in set, set |-> set \ {c}]

\* `for conn in disconnected: active_connections.remove(conn)`, which stops
\* at the first KeyError
RECURSIVE RemoveAll(_, _)
RemoveAll(set, todo) ==
    IF todo = {} THEN [ok |-> TRUE, set |-> set]
    ELSE LET c == CHOOSE x \in todo : \A y \in todo : x <= y
             r == Removed(set, c)
         IN  IF r.ok THEN RemoveAll(r.set, todo \ {c}) ELSE r

\* websocket_endpoint up to its first send: accept(), active_connections.add
Connect(c) ==
    /\ UNCHANGED beside_server
    /\ endpoint[c] = "none"
    /\ link' = [link EXCEPT ![c] = "up"]
    /\ active_connections' = active_connections \cup {c}
    /\ endpoint' = [endpoint EXCEPT ![c] = "greeting"]
    /\ UNCHANGED << current_state, bcast >>

\* The client goes away; the server learns of it at its next receive or send.
ClientLeaves(c) ==
    /\ UNCHANGED beside_server
    /\ link[c] = "up"
    /\ link' = [link EXCEPT ![c] = "down"]
    /\ UNCHANGED << active_connections, current_state, endpoint, bcast >>

\* await websocket.send_json(current_state), outside the try block: when it
\* raises, the coroutine ends and the connection stays in the set
Greet(c) ==
    /\ UNCHANGED beside_server
    /\ endpoint[c] = "greeting"
    /\ endpoint' = [endpoint EXCEPT
                      ![c] = IF SendSucceeds(c) THEN "receiving" ELSE "raised"]
    /\ UNCHANGED << active_connections, current_state, link, bcast >>

\* data = await websocket.receive_text() returns a message
Receive(c) ==
    /\ UNCHANGED beside_server
    /\ endpoint[c] = "receiving"
    /\ link[c] = "up"
    /\ endpoint' = [endpoint EXCEPT ![c] = "echoing"]
    /\ UNCHANGED << active_connections, current_state, link, bcast >>

\* except WebSocketDisconnect: active_connections.remove(websocket)
EndpointRemove(c) ==
    LET r == Removed(active_connections, c)
    IN  /\ active_connections' = r.set
        /\ endpoint' = [endpoint EXCEPT
                          ![c] = IF r.ok THEN "closed" ELSE "KeyError"]

\* await websocket.send_text(...) in the loop
Echo(c) ==
    /\ UNCHANGED beside_server
    /\ endpoint[c] = "echoing"
    /\ IF SendSucceeds(c)
       THEN /\ endpoint' = [endpoint EXCEPT ![c] = "receiving"]
            /\ UNCHANGED active_connections
       ELSE \* the send raises WebSocketDisconnect, or an error the try
            \* block does not catch
            \/ EndpointRemove(c)
            \/ /\ endpoint' = [endpoint EXCEPT ![c] = "raised"]
               /\ UNCHANGED active_connections
    /\ UNCHANGED << current_state, link, bcast >>

\* receive_text() raises WebSocketDisconnect
Disconnect(c) ==
    /\ UNCHANGED beside_server
    /\ endpoint[c] = "receiving"
    /\ link[c] = "down"
    /\ EndpointRemove(c)
    /\ UNCHANGED << current_state, link, bcast >>

\* The `for connection in active_connections` loop moves on: RuntimeError
\* when the set's size is no longer what it was when the loop began, the next
\* connection and its send_json when there is one, else the removals.
BroadcastAdvance(b) ==
    IF Cardinality(active_connections) # b.used
    THEN [b EXCEPT !.at = "ended", !.connection = 0,
                   !.error = "RuntimeError"]
    ELSE IF active_connections \ b.visited # {}
    THEN [b EXCEPT !.at = "sending",
                   !.connection = CHOOSE c \in active_connections \ b.visited :
                                      TRUE]
    ELSE [b EXCEPT !.at = "ended", !.connection = 0,
                   !.error = IF RemoveAll(active_connections,
                                          b.disconnected).ok
                             THEN "none" ELSE "KeyError"]

\* What the broadcast leaves of the set when it has moved on.
BroadcastLeaves(b, after) ==
    IF after.at = "ended" /\ after.error # "RuntimeError"
    THEN RemoveAll(active_connections, b.disconnected).set
    ELSE active_connections

\* update_state(state, text) up to the first send of broadcast_state
UpdateState(u) ==
    /\ UNCHANGED beside_server
    /\ bcast[u].at = "none"
    /\ \E state \in Phases : current_state' = state
    /\ LET b == [NoBroadcast EXCEPT
                    !.used = Cardinality(active_connections),
                    !.connected = active_connections]
           after == BroadcastAdvance(b)
       IN  /\ bcast' = [bcast EXCEPT ![u] = after]
           /\ active_connections' = BroadcastLeaves(b, after)
    /\ UNCHANGED << link, endpoint >>

\* await connection.send_json(message) is over; the loop goes on
BroadcastSend(u) ==
    /\ UNCHANGED beside_server
    /\ bcast[u].at = "sending"
    /\ LET c == bcast[u].connection
           b == IF SendSucceeds(c)
                THEN [bcast[u] EXCEPT !.visited = @ \cup {c},
                                      !.sent = @ \cup {c}]
                ELSE [bcast[u] EXCEPT !.visited = @ \cup {c},
                                      !.disconnected = @ \cup {c}]
           after == BroadcastAdvance(b)
       IN  /\ bcast' = [bcast EXCEPT ![u] = after]
           /\ active_connections' = BroadcastLeaves(b, after)
    /\ UNCHANGED << current_state, link, endpoint >>

InitServer == Init /\ backend = "sounddevice"

NextServer ==
    \/ \E c \in Clients : Connect(c)
    \/ \E c \in Clients : ClientLeaves(c)
    \/ \E c \in Clients : Greet(c)
    \/ \E c \in Clients : Receive(c)
    \/ \E c \in Clients : Echo(c)
    \/ \E c \in Clients : Disconnect(c)
    \/ \E u \in Updates : UpdateState(u)
    \/ \E u \in Updates : BroadcastSend(u)

SpecServer == InitServer /\ [][NextServer]_vars

----------------------------------------------------------------------------
Next ==
    \/ RecordAudioOpenA /\ UNCHANGED beside_recorder
    \/ RecordAudioReadA /\ UNCHANGED beside_recorder
    \/ RecordAudioReadErrorA /\ UNCHANGED beside_recorder
    \/ RecordAudioOpenB /\ UNCHANGED beside_recorder
    \/ AudioCallbackB /\ UNCHANGED beside_recorder
    \/ RecordAudioTickB /\ UNCHANGED beside_recorder
    \/ DeviceFails /\ UNCHANGED beside_recorder
    \/ StartRecording /\ UNCHANGED beside_recorder
    \/ StopRecording /\ UNCHANGED beside_recorder
    \/ Cleanup /\ UNCHANGED beside_recorder
    \/ ManualListenStart /\ UNCHANGED beside_recorder
    \/ ManualListenEnter /\ UNCHANGED beside_recorder
    \/ ManualListenCancel /\ UNCHANGED beside_recorder
    \/ RecordingCallback /\ UNCHANGED beside_recorder

Spec == Init /\ [][Next]_vars

TypeOK ==
    /\ backend \in {"pyaudio", "sounddevice"}
    /\ pc \in {"idle", "autoA", "autoB", "waitkey"}
    /\ is_recording \in BOOLEAN
    /\ recording_stream \in {"unset", "none", "open", "closed"}
    /\ auto_stream \in {"none", "open", "closed"}
    /\ stop_reason \in {"none", "silence", "cap", "error"}
    /\ device_error \in {"none", "auto", "manual"}
    /\ chunk_index \in 0..max_chunks
    /\ Len(frames) <= max_chunks + 1
    /\ Len(recording_frames) <= max_chunks + 1
    /\ stage \in {"prompt", "listening", "generate", "speak", "finally",
                  "exited"}
    /\ Len(interaction) <= 3
    /\ llm_calls \in 0..MaxCalls
    /\ enabled \in BOOLEAN
    /\ http_requests \in 0..MaxRequests
    /\ active_connections \subseteq Clients
    /\ current_state \in Phases
    /\ \A c \in Clients :
          /\ link[c] \in {"none", "up", "down"}
          /\ endpoint[c] \in {"none", "greeting", "receiving", "echoing",
                              "closed", "raised", "KeyError"}
    /\ \A u \in Updates :
          /\ bcast[u].at \in {"none", "sending", "ended"}
          /\ bcast[u].error \in {"none", "RuntimeError", "KeyError"}

----------------------------------------------------------------------------
(* Vocabulary of the properties.                                           *)

AbsVal(s) == IF s < 0 THEN 0 - s ELSE s

RECURSIVE SumAbs(_)
SumAbs(frame) ==
    IF frame = << >> THEN 0 ELSE AbsVal(Head(frame)) + SumAbs(Tail(frame))

\* The frame's mean absolute amplitude is above silence_threshold.
AboveThreshold(frame) == SumAbs(frame) > silence_threshold * Len(frame)

\* The frames the detector has been given so far.
Seen == SubSeq(frames, 1, evaluated)

\* Number of the last frame above the threshold among fs, 0 if there is none.
LastAbove(fs) ==
    LET S == {k \in 1..Len(fs) : AboveThreshold(fs[k])}
    IN  IF S = {} THEN 0 ELSE CHOOSE k \in S : \A j \in S : j <= k

AllQuiet(fs) == \A k \in 1..Len(fs) : ~AboveThreshold(fs[k])

\* The session that was recording has been stopped (stop_recording resets the
\* attribute to None, which stt_sounddevice.py has nowhere else) or cancelled
\* (the handler leaves the closed stream in place), and no stream is live.
SessionEnded ==
    \/ recording_stream = "closed"
    \/ (recording_stream = "none" /\ backend = "sounddevice")

\* A manual session has just been finalized into a package.
ManualPackage == package # NoPackage /\ ret.op # "listen"

\* Input streams open on the device.
OpenStreams ==
    (IF auto_stream = "open" THEN 1 ELSE 0)
        + (IF recording_stream = "open" THEN 1 ELSE 0) + leaked

\* listen_and_transcribe has returned to its caller without raising.
AutoReturned ==
    pc = "idle" /\ ret.op = "listen" /\ ~ret.raised /\ auto_stream = "closed"

----------------------------------------------------------------------------
(* C1: in automatic recording, when frame k is above the threshold and    *)
(* every later frame is at or below it, the silence stop fires exactly    *)
(* when frame k + silence_chunks_threshold + 1 has been processed, and at *)
(* no earlier frame.                                                       *)
C1_StopExactlyAfterSilence ==
    LET k == LastAbove(Seen)
    IN  /\ stop_reason = "silence" =>
              k > 0 /\ evaluated = k + silence_chunks_threshold + 1
        /\ (k > 0 /\ evaluated >= k + silence_chunks_threshold + 1) =>
              stop_reason = "silence"

(* C2: in automatic recording, as long as every frame is at or below the  *)
(* threshold, started_speaking stays false, the silence stop does not     *)
(* fire, and a recording that ends has run to the max-duration cap.       *)
C2_AllQuietRunsToCap ==
    AllQuiet(frames) =>
        /\ ~started_speaking
        /\ stop_reason # "silence"
        /\ AutoReturned => (stop_reason = "cap" /\ chunk_index = max_chunks)

C2_Witness ==
    /\ AutoReturned
    /\ Len(frames) = max_chunks
    /\ AllQuiet(frames)
    /\ stop_reason = "cap"

(* C3: in every recording mode the recording buffer never holds more than *)
(* floor(max_duration * sample_rate / frame_size) frames.                 *)
C3_BufferWithinCap ==
    /\ Len(frames) <= max_chunks
    /\ Len(recording_frames) <= max_chunks

(* C4: when the silence stop fires, started_speaking is true and the      *)
(* quiet count exceeds silence_chunks_threshold; the count is 0 right     *)
(* after every frame above the threshold, and it is not incremented       *)
(* before the first such frame.                                            *)
C4_QuietCount ==
    /\ stop_reason = "silence" =>
          started_speaking /\ silent_chunks > silence_chunks_threshold
    /\ (evaluated > 0 /\ AboveThreshold(frames[evaluated])) =>
          silent_chunks = 0
    /\ AllQuiet(Seen) => silent_chunks = 0

(* C5: start_recording on an instance that is already recording fails     *)
(* with an error its caller receives, and leaves is_recording, the        *)
(* buffer and the stream as they were.                                     *)
C5_ConflictReported ==
    [][ (StartRecording /\ is_recording) =>
           (ret'.raised /\ UNCHANGED manual_vars) ]_vars

(* C6: when opening the device fails inside start_recording the call      *)
(* fails and the session stays Idle: is_recording is false afterwards.    *)
C6_OpenFailureStaysIdle ==
    (ret.op = "start_recording" /\ ret.raised) => ~is_recording

(* C7: the device handle is released on every exit path of a session:     *)
(* no call in progress means record_audio's stream is not open, and a     *)
(* session that is not recording has no open stream.                      *)
C7_StreamsReleased ==
    /\ pc = "idle" => auto_stream # "open"
    /\ ~is_recording => recording_stream # "open"
    /\ leaked = 0

C7_Witness ==
    /\ printed = "recording_cancelled"
    /\ ret.op = "manual_listen"
    /\ recording_stream = "closed"
    /\ recording_frames # << >>

(* C8: a device error during an automatic recording ends the session      *)
(* with an error for the caller and without an Audio Package, also when   *)
(* no frame was captured before it.                                        *)
C8_DeviceErrorSurfaced ==
    (pc = "idle" /\ ret.op = "listen" /\ device_error = "auto") =>
        (ret.raised /\ package = NoPackage /\ transcribed = "nothing")

(* C9: finalizing a session with zero buffered frames gives the caller an *)
(* outcome unlike that of a stop request without an active recording, and *)
(* no empty audio reaches transcription.                                   *)
C9_EmptyRecordingDistinct ==
    /\ transcribed # "empty_audio"
    /\ printed = "no_audio_data" => (ret.raised \/ ret.value # "None")

(* C10: cancelling a manual recording releases the stream, leaves the     *)
(* buffer empty and the session not recording, and produces no Audio      *)
(* Package and no transcription call.                                      *)
C10_CancelDiscards ==
    (printed = "recording_cancelled" /\ ret.op = "manual_listen") =>
        /\ recording_stream # "open"
        /\ recording_frames = << >>
        /\ ~is_recording
        /\ package = NoPackage
        /\ transcribed = "nothing"

(* C11: a stop_recording or cleanup issued when the last session has      *)
(* been stopped or cancelled and none is recording changes none of the     *)
(* session's state, calls nothing on a stream, builds no Audio Package and *)
(* does not raise.                                                         *)
C11_StopIdempotent ==
    [][ ((StopRecording \/ Cleanup) /\ SessionEnded) =>
           /\ UNCHANGED manual_vars
           /\ package' = NoPackage
           /\ ~ret'.raised ]_vars

(* C12: at most one input stream is open on the device at any time.       *)
C12_SingleStream == OpenStreams <= 1

(* C17: in automatic recording each pass of the detector takes the frame  *)
(* that follows the one it took before, so no frame is skipped and none   *)
(* is taken twice, and when the recording returns every frame of the      *)
(* buffer has been through the detector.                                  *)
C17_EachFrameOnce ==
    [][ /\ (RecordAudioReadA \/ (RecordAudioTickB /\ Len(frames) > 0)) =>
               evaluated' = evaluated + 1
        /\ ((RecordAudioReadA \/ RecordAudioTickB) /\ pc' = "idle") =>
               evaluated' = Len(frames') ]_vars

(* C18: the Audio Package a manual session returns holds exactly the      *)
(* frames the callback delivered between the session's start and its      *)
(* stop, in delivery order, and a session that is not recording has no    *)
(* frame appended to its buffer.                                          *)
C18_PackageIsSessionFrames ==
    /\ [](ManualPackage => package[1].data = ToBytes(Join(delivered)))
    /\ [][ ~is_recording => \/ recording_frames' = recording_frames
                            \/ recording_frames' = << >> ]_vars

C18_Witness ==
    /\ ManualPackage
    /\ ret.op = "stop_recording"
    /\ Len(delivered) = 2
    /\ delivered[1] # delivered[2]

----------------------------------------------------------------------------
(* Reading an Audio Package back.                                          *)

\* One little-endian signed 16-bit sample.
BytesToInt16(lo, hi) ==
    LET u == lo + 256 * hi IN IF u >= 32768 THEN u - 65536 ELSE u

RECURSIVE DecodeSamples(_)
DecodeSamples(bytes) ==
    IF Len(bytes) < 2 THEN << >>
    ELSE << BytesToInt16(bytes[1], bytes[2]) >>
             \o DecodeSamples(SubSeq(bytes, 3, Len(bytes)))

\* The samples of the nframes sample frames the header announces.
WavDecode(wav) ==
    DecodeSamples(SubSeq(wav.data, 1,
                         wav.nframes * wav.sampwidth * wav.nchannels))

\* The frames the package in `package` was built from.
Captured == IF ret.op = "listen" THEN frames ELSE delivered

(* C16: decoding the Audio Package built from N captured frames gives     *)
(* back the N * frame_size samples of those frames in capture order, and  *)
(* the header carries the configured channel count and sample rate and a  *)
(* depth of 16 bits.                                                       *)
C16_PackageRoundTrip ==
    package # NoPackage =>
        /\ WavDecode(package[1]) = Join(Captured)
        /\ Len(WavDecode(package[1])) = Len(Captured) * chunk_size
        /\ package[1].nchannels = channels
        /\ package[1].framerate = sample_rate
        /\ package[1].sampwidth * 8 = 16

C16_Witness ==
    /\ package # NoPackage
    /\ ret.op = "listen"
    /\ Len(frames) = 3
    /\ frames[1] = LoudFrame
    /\ frames[2] = ClippedFrame
    /\ frames[3] = QuietFrame

----------------------------------------------------------------------------
(* Properties of the conversation loop and of the response generator,     *)
(* checked on SpecMain.                                                    *)

\* The entries of the current iteration that record a call of `name`.
CallsOf(name) ==
    {i \in 1..Len(interaction) : interaction[i].call = name}

\* The history is the tail of everything that was recorded.
LastExchanges ==
    LET n == Len(exchanges)
        k == IF n > max_history * 2 THEN max_history * 2 ELSE n
    IN  SubSeq(exchanges, n - k + 1, n)

(* C14: transcription is given the recording only when the session is no  *)
(* longer recording and its stream is not open; in one iteration of the   *)
(* loop the response generator is called only right after a transcription *)
(* that returned text, and speech output only right after a call of the   *)
(* generator, with what that call returned.                               *)
C14_PipelineOrder ==
    /\ transcribed # "nothing" =>
          (~is_recording /\ recording_stream # "open")
    /\ \A i \in CallsOf("generate") :
          /\ i > 1
          /\ interaction[i - 1].call = "transcribe"
          /\ interaction[i - 1].result = "text"
    /\ \A i \in CallsOf("speak") :
          /\ i > 1
          /\ interaction[i - 1].call = "generate"
          /\ interaction[i - 1].result \in {"reply", "apology"}
          /\ interaction[i].outcome = interaction[i - 1].result

C14_Witness ==
    /\ Len(interaction) = 3
    /\ interaction[1].call = "transcribe"
    /\ interaction[2].call = "generate"
    /\ interaction[2].outcome = "ok"
    /\ interaction[3].call = "speak"
    /\ stage = "prompt"

(* C15: when the request of generate_response fails (timeout, HTTP error  *)
(* status, malformed reply) the call returns None, and no speech output   *)
(* follows in that iteration of the loop.                                  *)
C15_FailureReturnsNone ==
    \A i \in CallsOf("generate") :
        interaction[i].outcome \in RequestFailures =>
            /\ interaction[i].result = "None"
            /\ i = Len(interaction)

(* C19: the conversation history never holds more than 2 * max_history    *)
(* entries, has even length, alternates user and assistant entries        *)
(* starting with a user entry and is the tail of what was recorded; a     *)
(* generate_response whose request fails leaves it as it was.             *)
C19_HistoryShape ==
    /\ [](/\ Len(conversation_history) <= 2 * max_history
          /\ Len(conversation_history) % 2 = 0
          /\ \A i \in 1..Len(conversation_history) :
                conversation_history[i].role =
                    IF i % 2 = 1 THEN "user" ELSE "assistant"
          /\ conversation_history = LastExchanges)
    /\ [][ (MainGenerate /\ ret'.value = "apology") =>
              UNCHANGED conversation_history ]_vars

C19_Witness ==
    /\ Len(exchanges) > 2 * max_history
    /\ Len(conversation_history) = 2 * max_history
    /\ ret.op = "generate_response"
    /\ ret.value = "apology"

----------------------------------------------------------------------------
(* Properties of the status broadcaster, checked on SpecBroadcaster.      *)

\* The POST could not reach the server at all.
Unreachable(event) == event \in {"refused", "connect_timeout"}

(* C13: no call of the broadcaster raises; a POST that cannot reach the   *)
(* server leaves the broadcaster disabled; once disabled it stays         *)
(* disabled and makes no further HTTP request.                            *)
C13_BroadcasterSelfDisables ==
    /\ [](/\ ~last_notify.raised
          /\ Unreachable(last_notify.event) => ~enabled)
    /\ [][ ~enabled => (~enabled' /\ http_requests' = http_requests) ]_vars

C13_Witness ==
    /\ ~enabled
    /\ last_notify.event = "not_sent"
    /\ last_notify.method = "thinking"
    /\ http_requests = 2

----------------------------------------------------------------------------
(* Properties of the WebSocket server, checked on SpecServer.             *)

\* The broadcast of update u is over, by return or by exception.
Ended(u) == bcast[u].at = "ended"

\* Update u's broadcast is inside its loop over active_connections and the
\* step is not its own.
Iterating(u) == bcast[u].at = "sending" /\ bcast'[u] = bcast[u]

(* C20: a state update is sent to every client that was connected when it *)
(* arrived and still is; a client whose send failed is removed from the   *)
(* set; no remove() meets a connection that is already absent; and the    *)
(* set does not change while a broadcast is iterating over it.            *)
C20_BroadcastConsistent ==
    /\ [](\A u \in Updates : Ended(u) =>
            /\ \A c \in bcast[u].connected \cap active_connections :
                  c \in bcast[u].sent \cup bcast[u].disconnected
            /\ bcast[u].disconnected \cap active_connections = {})
    /\ [](/\ \A u \in Updates : bcast[u].error # "KeyError"
          /\ \A c \in Clients : endpoint[c] # "KeyError")
    /\ [][ \A u \in Updates :
              Iterating(u) => active_connections' = active_connections ]_vars

====
